---- MODULE Spec2Model ----
(***************************************************************************)
(* Model of Utilities/Log/DebugAngel.cpp: the two append-to-file debug     *)
(* writers DebugAngel_Write and DebugAngel_HexWrite, the Win32 file        *)
(* object they open, and the callers (threads) that invoke them.           *)
(*                                                                         *)
(* Characters are one-character strings, C strings are sequences of        *)
(* characters without their terminating NUL (strlen is Len).               *)
(***************************************************************************)
EXTENDS Integers, Sequences, FiniteSets, TLC

\* ------------------------------------------------------------------ bounds

\* Total number of DebugAngel_* calls the callers make in one behaviour.
MaxCalls == 2

\* ------------------------------------------------------- program constants

\* char lpszStr[1024] in DebugAngel_HexWrite.
LpszStrSize == 1024

\* ------------------------------------------------------------------ inputs

Threads == {1, 2}

\* The caller of sequential, single-threaded use.
MainThread == CHOOSE t \in Threads : \A u \in Threads : t <= u

\* The largest iSize whose line, with its terminator, fits lpszStr:
\* 22 (timestamp) + 5 (tag) + 5 * iSize + 2 (CR LF) + 1 (NUL) <= 1024.
MaxFit == (LpszStrSize - 1 - 22 - 5 - 2) \div 5

\* A buffer of n bytes, all equal to b.
Fill(b, n) == [i \in 1..n |-> b]

\* DebugAngel_HexWrite calls the callers make: <<pBuffer, iSize, sender>>;
\* iSize never exceeds the bytes behind pBuffer.
HexInputs ==
    { <<<<>>, 0, 2>>,
      <<<<>>, 0, 1>>,
      <<<<65>>, 1, 0>>,
      <<<<65, 0, 255>>, 3, 1>>,
      <<<<10, 240>>, 2, -1>>,
      <<<<65>>, -1, 1>>,
      <<Fill(255, MaxFit), MaxFit, 1>>,
      <<Fill(171, MaxFit + 1), MaxFit + 1, 2>> }

\* DebugAngel_Write calls the callers make: the format and its arguments;
\* every directive has its argument and the rendered text fits lpszBuffer.
WriteInputs ==
    { [fmt |-> <<>>, args |-> <<>>],
      [fmt |-> <<"o", "k", "\r", "\n">>, args |-> <<>>],
      [fmt |-> <<"n", "=", "%d", ";">>, args |-> <<[n |-> -42, s |-> <<>>]>>],
      [fmt |-> <<"%s", "%d">>,
       args |-> <<[n |-> 0, s |-> <<"h", "i">>], [n |-> 907, s |-> <<>>]>>] }

\* What one caller, used sequentially, passes, and the instants (time_t
\* seconds) time() returns to it.
SeqInputs ==
    [ hex      |-> HexInputs,
      writes   |-> WriteInputs,
      instants |-> {0, 951868799, 1704028029, 1704164645} ]

\* What concurrent callers pass: fewer of the same calls.
ConcInputs ==
    [ hex      |-> { h \in HexInputs : h[3] \in {-1, 2} \/ h[2] = 3 },
      writes   |-> { w \in WriteInputs : Len(w.fmt) = 4 },
      instants |-> {951868799, 1704164645} ]

\* What concurrent callers pass while the path changes its accessibility:
\* fewer still.
EnvInputs ==
    [ hex      |-> { h \in HexInputs : h[3] = 2 },
      writes   |-> { w \in WriteInputs : Len(w.fmt) = 4 /\ w.args # <<>> },
      instants |-> {1704164645} ]

\* Content the file can have before the first call.
PriorContents == { <<>>, <<"o", "l", "d", "\r", "\n">> }

NoArg == [op |-> "none", fmt |-> <<>>, args |-> <<>>, buf |-> <<>>, size |-> 0, sender |-> 0]

\* ----------------------------------------------------- formatting helpers

HexDigits == <<"0", "1", "2", "3", "4", "5", "6", "7", "8", "9", "A", "B", "C", "D", "E", "F">>

RECURSIVE Dec(_)
\* Decimal digits of n >= 0, no padding ("%d" of a non-negative value, "%Y").
Dec(n) == IF n < 10 THEN <<HexDigits[n + 1]>> ELSE Dec(n \div 10) \o <<HexDigits[(n % 10) + 1]>>

\* Two decimal digits, zero padded ("%m", "%d", "%H", "%M", "%S" of strftime).
Dec2(n) == <<HexDigits[(n \div 10) + 1], HexDigits[(n % 10) + 1]>>

\* wsprintf(lpszTemp, "0x%02X ", *pbySeek) for a BYTE b.
HexToken(b) == <<"0", "x", HexDigits[(b \div 16) + 1], HexDigits[(b % 16) + 1], " ">>

IsLeap(y) == (y % 4 = 0 /\ y % 100 # 0) \/ y % 400 = 0

DaysInYear(y) == IF IsLeap(y) THEN 366 ELSE 365

DaysInMonth(y, m) ==
    IF m = 2 THEN (IF IsLeap(y) THEN 29 ELSE 28)
    ELSE IF m \in {4, 6, 9, 11} THEN 30 ELSE 31

RECURSIVE YearOf(_, _)
\* <<year, day of the year (from 0)>> of a day count starting at 1 Jan of y.
YearOf(days, y) ==
    IF days < DaysInYear(y) THEN <<y, days>> ELSE YearOf(days - DaysInYear(y), y + 1)

RECURSIVE MonthOf(_, _, _)
\* <<month, day of the month>> of a day of the year (from 0).
MonthOf(yday, y, m) ==
    IF yday < DaysInMonth(y, m) THEN <<m, yday + 1>>
    ELSE MonthOf(yday - DaysInMonth(y, m), y, m + 1)

\* std::localtime(&currentTime): the broken-down time of an instant.
LocalTime(t) ==
    LET yd == YearOf(t \div 86400, 1970)
        md == MonthOf(yd[2], yd[1], 1)
        secs == t % 86400
    IN  [year |-> yd[1], mon |-> md[1], mday |-> md[2],
         hour |-> secs \div 3600, min |-> (secs % 3600) \div 60, sec |-> secs % 60]

\* strftime with "%I" in place of "%H": the hour on the 12-hour clock.
StrFTime12Hour(tm) ==
    <<"[">> \o Dec(tm.year) \o <<"-">> \o Dec2(tm.mon) \o <<"-">> \o Dec2(tm.mday)
        \o <<" ">> \o Dec2(IF tm.hour % 12 = 0 THEN 12 ELSE tm.hour % 12)
        \o <<":">> \o Dec2(tm.min) \o <<":">> \o Dec2(tm.sec) \o <<"]", " ">>

\* std::strftime(timeStr, 64, "[%Y-%m-%d %H:%M:%S] ", tm).
StrFTime(tm) ==
    <<"[">> \o Dec(tm.year) \o <<"-">> \o Dec2(tm.mon) \o <<"-">> \o Dec2(tm.mday)
        \o <<" ">> \o Dec2(tm.hour) \o <<":">> \o Dec2(tm.min) \o <<":">> \o Dec2(tm.sec)
        \o <<"]", " ">>

\* GetCurrentTimeWrapped(timeStr) when time() returns t.
GetCurrentTimeWrapped(t) == StrFTime(LocalTime(t))

\* The test written sender >= 1.
LogTypeAtLeastOne(sender) ==
    IF sender >= 1 THEN <<"C", "-", ">", "S", " ">> ELSE <<"S", "-", ">", "C", " ">>

\* The if (sender == 1) ... else ... that fills logType.
LogType(sender) ==
    IF sender = 1 THEN <<"C", "-", ">", "S", " ">> ELSE <<"S", "-", ">", "C", " ">>

RECURSIVE HexLoop(_, _, _)
\* for (j = 0; j < iSize; j++, pbySeek++) { wsprintf(lpszTemp, "0x%02X ", *pbySeek);
\* strcat(lpszStr, lpszTemp); }: what the iterations j .. k-1 append to lpszStr, in
\* order (the range is halved to keep the evaluation shallow).
HexLoop(buf, j, k) ==
    IF j >= k THEN <<>>
    ELSE IF k = j + 1 THEN HexToken(buf[j + 1])
    ELSE LET mid == (j + k) \div 2 IN HexLoop(buf, j, mid) \o HexLoop(buf, mid, k)

\* lpszStr as DebugAngel_HexWrite assembles it before WriteFile.
HexLine(timeStr, buf, iSize, sender) ==
    timeStr \o LogType(sender) \o HexLoop(buf, 0, iSize) \o <<"\r", "\n">>

\* "%d" of wvsprintf: a signed decimal.
FmtInt(n) == IF n < 0 THEN <<"-">> \o Dec(-n) ELSE Dec(n)

RECURSIVE WvsPrintf(_, _)
\* wvsprintf(lpszBuffer, lpszFormat, va): literal characters are copied, "%d"
\* and "%s" consume the next argument.
WvsPrintf(fmt, args) ==
    IF fmt = <<>> THEN <<>>
    ELSE IF Head(fmt) = "%d" THEN FmtInt(Head(args).n) \o WvsPrintf(Tail(fmt), Tail(args))
    ELSE IF Head(fmt) = "%s" THEN Head(args).s \o WvsPrintf(Tail(fmt), Tail(args))
    ELSE <<Head(fmt)>> \o WvsPrintf(Tail(fmt), args)

\* ------------------------------------------------------------------- state

VARIABLES
    exists,     \* whether the file of lpszFileName exists on disk
    content,    \* its bytes
    access,     \* "ok", or why CreateFile on the path fails: "denied" (permission,
                \* invalid path) or "locked" (another process holds an open that
                \* does not share write access)
    kernel,     \* the open handles of this process on the file: handle -> file pointer
    alive,      \* the process is running
    pc,         \* per thread: the statement its call is at, "idle" outside a call
    arg,        \* per thread: the arguments of its call
    hFile,      \* per thread: the local hFile (0: not a handle of the file)
    lpszStr,    \* per thread: the text buffer (lpszBuffer / lpszStr)
    now,        \* per thread: the instant time() returned
    timeStr,    \* per thread: the local timeStr
    opened,     \* per thread: CreateFile of this call succeeded
    ub,         \* per thread: what writing past lpszStr did, "none" if it did not happen
    prior,      \* the content of the file before the first call
    hist,       \* the calls that ended, in the order they ended
    ncalls      \* calls started

vars == <<exists, content, access, kernel, alive, pc, arg, hFile, lpszStr, now, timeStr,
          opened, ub, prior, hist, ncalls>>

\* ---------------------------------------------------------------- Win32 file

\* dwDesiredAccess of both CreateFile calls: GENERIC_WRITE.
DesiredAccess == {"write"}

\* FILE_SHARE_READ | FILE_SHARE_WRITE.
ShareReadWrite == {"read", "write"}

\* dwShareMode of both CreateFile calls: FILE_SHARE_READ.
ShareMode == {"read"}

\* CreateFile succeeds: the path can be opened and every handle already open on
\* the file (each opened with DesiredAccess and ShareMode) is compatible with
\* this open, in both directions.
CanOpen == access = "ok" /\ (DOMAIN kernel = {} \/ DesiredAccess \subseteq ShareMode)

\* SetFilePointer(hFile, 0, NULL, FILE_BEGIN).
SeekBegin(bytes) == 0

\* SetFilePointer(hFile, 0, NULL, FILE_END): the new file pointer of a handle
\* on a file holding bytes.
SeekEnd(bytes) == Len(bytes)

\* WriteFile with strlen(lpszToWrite) - 1 for the length.
WriteAtShort(bytes, pos, data) ==
    LET d == SubSeq(data, 1, Len(data) - 1)
    IN  SubSeq(bytes, 1, pos) \o d \o SubSeq(bytes, pos + Len(d) + 1, Len(bytes))

\* WriteFile at file pointer pos: the bytes from pos on are overwritten, the
\* file grows when the data goes past its end.
WriteAt(bytes, pos, data) ==
    SubSeq(bytes, 1, pos) \o data \o SubSeq(bytes, pos + Len(data) + 1, Len(bytes))

Without(f, h) == [x \in DOMAIN f \ {h} |-> f[x]]

\* What the build can do when strcat writes past lpszStr[1023]: nothing that
\* shows ("intact": the bytes hit are dead or padding), overwrite the local
\* hFile ("clobber": WriteFile and CloseHandle then get a value that is no
\* handle of the file), or fault inside the function ("crash": the process ends
\* before WriteFile).
Overflows == {"intact", "clobber", "crash"}

\* -------------------------------------------------------------------- Init

Init ==
    /\ exists \in BOOLEAN
    /\ content \in (IF exists THEN PriorContents ELSE {<<>>})
    /\ access = "ok"
    /\ kernel = <<>>
    /\ alive = TRUE
    /\ pc = [t \in Threads |-> "idle"]
    /\ arg = [t \in Threads |-> NoArg]
    /\ hFile = [t \in Threads |-> 0]
    /\ lpszStr = [t \in Threads |-> <<>>]
    /\ now = [t \in Threads |-> 0]
    /\ timeStr = [t \in Threads |-> <<>>]
    /\ opened = [t \in Threads |-> FALSE]
    /\ ub = [t \in Threads |-> "none"]
    /\ prior = content
    /\ hist = <<>>
    /\ ncalls = 0

\* ----------------------------------------------------------------- actions

\* DebugAngel_Write up to the call of WriteDebugInfoStr: the text is rendered
\* into lpszBuffer.
DebugAngel_Write(t, in) ==
    /\ alive /\ pc[t] = "idle" /\ ncalls < MaxCalls
    /\ \E w \in in.writes :
        /\ arg' = [arg EXCEPT ![t] = [NoArg EXCEPT !.op = "write", !.fmt = w.fmt, !.args = w.args]]
        /\ lpszStr' = [lpszStr EXCEPT ![t] = WvsPrintf(w.fmt, w.args)]
    /\ pc' = [pc EXCEPT ![t] = "open"]
    /\ ncalls' = ncalls + 1
    /\ UNCHANGED <<exists, content, access, kernel, alive, hFile, now, timeStr, opened, ub, prior, hist>>

\* DebugAngel_HexWrite is entered.
DebugAngel_HexWrite(t, in) ==
    /\ alive /\ pc[t] = "idle" /\ ncalls < MaxCalls
    /\ \E h \in in.hex :
        arg' = [arg EXCEPT ![t] = [NoArg EXCEPT !.op = "hex", !.buf = h[1], !.size = h[2],
                                                !.sender = h[3]]]
    /\ pc' = [pc EXCEPT ![t] = "open"]
    /\ ncalls' = ncalls + 1
    /\ UNCHANGED <<exists, content, access, kernel, alive, hFile, lpszStr, now, timeStr, opened, ub, prior, hist>>

\* hFile = CreateFile(lpszFileName, GENERIC_WRITE, FILE_SHARE_READ, NULL,
\* OPEN_ALWAYS, ...): the file is created when absent; on failure hFile is no
\* handle and nothing is reported.
CreateFile(t) ==
    /\ alive /\ pc[t] = "open"
    /\ IF CanOpen
       THEN /\ kernel' = (t :> 0) @@ kernel
            /\ hFile' = [hFile EXCEPT ![t] = t]
            /\ opened' = [opened EXCEPT ![t] = TRUE]
            /\ exists' = TRUE
            /\ content' = IF exists THEN content ELSE <<>>
       ELSE /\ hFile' = [hFile EXCEPT ![t] = 0]
            /\ opened' = [opened EXCEPT ![t] = FALSE]
            /\ UNCHANGED <<kernel, exists, content>>
    /\ pc' = [pc EXCEPT ![t] = "seek"]
    /\ UNCHANGED <<access, alive, arg, lpszStr, now, timeStr, ub, prior, hist, ncalls>>

\* SetFilePointer(hFile, 0, NULL, FILE_END).
SetFilePointer(t) ==
    /\ alive /\ pc[t] = "seek"
    /\ kernel' = IF hFile[t] \in DOMAIN kernel
                 THEN [kernel EXCEPT ![hFile[t]] = SeekEnd(content)] ELSE kernel
    /\ pc' = [pc EXCEPT ![t] = IF arg[t].op = "hex" THEN "build" ELSE "write"]
    /\ UNCHANGED <<exists, content, access, alive, arg, hFile, lpszStr, now, timeStr, opened, ub, prior, hist, ncalls>>

\* DebugAngel_HexWrite from lpszStr[0] = '\0' to the last strcat: the line is
\* assembled in lpszStr. A line that does not fit, with its terminator, is
\* written past the buffer.
AssembleLine(t, in) ==
    /\ alive /\ pc[t] = "build"
    /\ \E i \in in.instants :
        LET line == HexLine(GetCurrentTimeWrapped(i), arg[t].buf, arg[t].size, arg[t].sender)
        IN  /\ now' = [now EXCEPT ![t] = i]
            /\ timeStr' = [timeStr EXCEPT ![t] = GetCurrentTimeWrapped(i)]
            /\ lpszStr' = [lpszStr EXCEPT ![t] = line]
            /\ IF Len(line) + 1 <= LpszStrSize
               THEN /\ ub' = [ub EXCEPT ![t] = "none"]
                    /\ pc' = [pc EXCEPT ![t] = "write"]
                    /\ UNCHANGED <<hFile, alive, kernel>>
               ELSE \E o \in Overflows :
                    /\ ub' = [ub EXCEPT ![t] = o]
                    /\ hFile' = IF o = "clobber" THEN [hFile EXCEPT ![t] = 0] ELSE hFile
                    /\ alive' = (o # "crash")
                    /\ kernel' = IF o = "crash" THEN <<>> ELSE kernel
                    /\ pc' = [pc EXCEPT ![t] = IF o = "crash" THEN "fault" ELSE "write"]
    /\ UNCHANGED <<exists, content, access, arg, opened, prior, hist, ncalls>>

\* WriteFile(hFile, lpszStr, strlen(lpszStr), &dwNumber, NULL).
WriteFile(t) ==
    /\ alive /\ pc[t] = "write"
    /\ IF hFile[t] \in DOMAIN kernel
       THEN /\ content' = WriteAt(content, kernel[hFile[t]], lpszStr[t])
            /\ kernel' = [kernel EXCEPT ![hFile[t]] = @ + Len(lpszStr[t])]
       ELSE UNCHANGED <<content, kernel>>
    /\ pc' = [pc EXCEPT ![t] = "close"]
    /\ UNCHANGED <<exists, access, alive, arg, hFile, lpszStr, now, timeStr, opened, ub, prior, hist, ncalls>>

\* CloseHandle(hFile), and the return to the caller.
CloseHandle(t) ==
    /\ alive /\ pc[t] = "close"
    /\ kernel' = IF hFile[t] \in DOMAIN kernel THEN Without(kernel, hFile[t]) ELSE kernel
    /\ hist' = Append(hist, [arg |-> arg[t], now |-> now[t], opened |-> opened[t], ub |-> ub[t]])
    /\ pc' = [pc EXCEPT ![t] = "idle"]
    /\ arg' = [arg EXCEPT ![t] = NoArg]
    /\ hFile' = [hFile EXCEPT ![t] = 0]
    /\ lpszStr' = [lpszStr EXCEPT ![t] = <<>>]
    /\ now' = [now EXCEPT ![t] = 0]
    /\ timeStr' = [timeStr EXCEPT ![t] = <<>>]
    /\ opened' = [opened EXCEPT ![t] = FALSE]
    /\ ub' = [ub EXCEPT ![t] = "none"]
    /\ UNCHANGED <<exists, content, access, alive, prior, ncalls>>

\* The path stops being openable: permissions change or the path goes away.
EnvDeny ==
    /\ access = "ok"
    /\ access' = "denied"
    /\ UNCHANGED <<exists, content, kernel, alive, pc, arg, hFile, lpszStr, now, timeStr, opened, ub, prior, hist, ncalls>>

\* Another process opens the file without sharing write access; it can only
\* while this process holds no handle (ShareMode lets others read only, and
\* such an open does not admit the GENERIC_WRITE handle already there).
EnvLock ==
    /\ access = "ok" /\ DOMAIN kernel = {}
    /\ access' = "locked"
    /\ UNCHANGED <<exists, content, kernel, alive, pc, arg, hFile, lpszStr, now, timeStr, opened, ub, prior, hist, ncalls>>

\* The path is openable again.
EnvRestore ==
    /\ access # "ok"
    /\ access' = "ok"
    /\ UNCHANGED <<exists, content, kernel, alive, pc, arg, hFile, lpszStr, now, timeStr, opened, ub, prior, hist, ncalls>>

Step(t, in) ==
    \/ DebugAngel_Write(t, in)
    \/ DebugAngel_HexWrite(t, in)
    \/ CreateFile(t)
    \/ SetFilePointer(t)
    \/ AssembleLine(t, in)
    \/ WriteFile(t)
    \/ CloseHandle(t)

\* Any number of threads call into the component, on a path whose
\* accessibility changes.
Next ==
    \/ \E t \in Threads : Step(t, EnvInputs)
    \/ EnvDeny
    \/ EnvLock
    \/ EnvRestore

Spec == Init /\ [][Next]_vars

\* Sequential, single-threaded use on a valid path: one caller, and nothing
\* makes the open fail.
NextSeq == Step(MainThread, SeqInputs)

SpecSeq == Init /\ [][NextSeq]_vars

\* Several callers at once on a valid path: nothing but the callers themselves
\* makes an open fail.
NextConc == \E t \in Threads : Step(t, ConcInputs)

SpecConc == Init /\ [][NextConc]_vars

\* ========================================================== what is claimed

IsPrefix(a, b) == Len(a) <= Len(b) /\ SubSeq(b, 1, Len(a)) = a

IsSuffix(a, b) == Len(a) <= Len(b) /\ SubSeq(b, Len(b) - Len(a) + 1, Len(b)) = a

InHexCall(t) == arg[t].op = "hex" /\ pc[t] \in {"write", "close"}

Idle == \A t \in Threads : pc[t] = "idle"

\* The timestamp tag of each instant of the model, written out.
ExpectedStamp(i) ==
    CASE i = 0 -> <<"[", "1", "9", "7", "0", "-", "0", "1", "-", "0", "1", " ", "0", "0", ":", "0", "0", ":", "0", "0", "]", " ">>
      [] i = 951868799 -> <<"[", "2", "0", "0", "0", "-", "0", "2", "-", "2", "9", " ", "2", "3", ":", "5", "9", ":", "5", "9", "]", " ">>
      [] i = 1704028029 -> <<"[", "2", "0", "2", "3", "-", "1", "2", "-", "3", "1", " ", "1", "3", ":", "0", "7", ":", "0", "9", "]", " ">>
      [] i = 1704164645 -> <<"[", "2", "0", "2", "4", "-", "0", "1", "-", "0", "2", " ", "0", "3", ":", "0", "4", ":", "0", "5", "]", " ">>

ExpectedTag(sender) ==
    IF sender = 1 THEN <<"C", "-", ">", "S", " ">> ELSE <<"S", "-", ">", "C", " ">>

\* The n tokens "0xXX " of buf[1..n], by position: character k belongs to byte
\* (k - 1) \div 5.
ExpectedTokens(buf, n) ==
    [k \in 1..(5 * n) |->
        LET b == buf[((k - 1) \div 5) + 1]
            p == (k - 1) % 5
        IN  CASE p = 0 -> "0"
              [] p = 1 -> "x"
              [] p = 2 -> HexDigits[(b \div 16) + 1]
              [] p = 3 -> HexDigits[(b % 16) + 1]
              [] p = 4 -> " "]

\* The hex-dump record of a call: timestamp, direction tag, one token per byte,
\* CR LF.
ExpectedHexRecord(i, buf, n, sender) ==
    ExpectedStamp(i) \o ExpectedTag(sender)
        \o ExpectedTokens(buf, IF n < 0 THEN 0 ELSE n) \o <<"\r", "\n">>

\* The rendered text of each (format, arguments) pair of the model, written out.
ExpectedText(fmt) ==
    CASE fmt = <<>> -> <<>>
      [] fmt = <<"o", "k", "\r", "\n">> -> <<"o", "k", "\r", "\n">>
      [] fmt = <<"n", "=", "%d", ";">> -> <<"n", "=", "-", "4", "2", ";">>
      [] fmt = <<"%s", "%d">> -> <<"h", "i", "9", "0", "7">>

\* The one record a call with arguments a, made at instant i, is to append.
ExpectedRecord(a, i) ==
    IF a.op = "hex" THEN ExpectedHexRecord(i, a.buf, a.size, a.sender) ELSE ExpectedText(a.fmt)

RECURSIVE Records(_)
\* The records of the calls of h, one after the other.
Records(h) ==
    IF h = <<>> THEN <<>> ELSE ExpectedRecord(Head(h).arg, Head(h).now) \o Records(Tail(h))

\* ---------------------------------------------------------------------- C10
\* C10: the line assembled in lpszStr has length len(timestamp) + 5 +
\* 5 * max(iSize, 0) + 2, and with its terminator it fits the 1024 bytes of
\* lpszStr for every iSize the function is called with.
C10_LineFitsBuffer ==
    \A t \in Threads :
        (arg[t].op = "hex" /\ pc[t] \in {"write", "close", "fault"}) =>
            /\ Len(lpszStr[t]) =
                   Len(timeStr[t]) + 5 + 5 * (IF arg[t].size < 0 THEN 0 ELSE arg[t].size) + 2
            /\ Len(lpszStr[t]) + 1 <= LpszStrSize

\* ----------------------------------------------------------------------- C9
\* C9 as stated: the timestamp tag is a string of 21 characters.
C9_StampHas21Chars ==
    \A t \in Threads : InHexCall(t) => Len(timeStr[t]) = 21

\* C9, amended: the timestamp tag of an instant is the 22-character string
\* "[YYYY-MM-DD HH:MM:SS] " of that instant (zero-padded fields, 24-hour
\* clock, closing bracket and one space), and it is the prefix of the line the
\* hex dump writes.
C9_StampIs22CharPrefix ==
    \A t \in Threads :
        InHexCall(t) =>
            /\ timeStr[t] = ExpectedStamp(now[t])
            /\ Len(timeStr[t]) = 22
            /\ IsPrefix(timeStr[t], lpszStr[t])

\* A hex dump made in the afternoon has been written to the file.
C9_Witness ==
    \E t \in Threads :
        /\ InHexCall(t) /\ pc[t] = "close" /\ opened[t] /\ ub[t] = "none"
        /\ now[t] = 1704028029
        /\ Len(content) > Len(prior)
        /\ SubSeq(content, Len(prior) + 1, Len(prior) + 22) = timeStr[t]

\* ----------------------------------------------------------------------- C4
\* C4: the direction tag, the five characters after the timestamp, is "C->S "
\* when sender is 1 and "S->C " for every other value of sender; the call goes
\* on to write whatever the value.
C4_DirectionTag ==
    \A t \in Threads :
        InHexCall(t) =>
            SubSeq(lpszStr[t], Len(timeStr[t]) + 1, Len(timeStr[t]) + 5) =
                IF arg[t].sender = 1 THEN <<"C", "-", ">", "S", " ">>
                ELSE <<"S", "-", ">", "C", " ">>

\* A dump with sender 2 has been written, after one with sender 1.
C4_Witness ==
    /\ Len(hist) = 1 /\ hist[1].arg.op = "hex" /\ hist[1].arg.sender = 1 /\ hist[1].opened
    /\ \E t \in Threads :
        /\ InHexCall(t) /\ pc[t] = "close" /\ opened[t] /\ arg[t].sender = 2
        /\ IsSuffix(lpszStr[t], content)

\* ----------------------------------------------------------------------- C1
\* C1: across every step the content of the file before the step is a prefix
\* of its content after it, and the file does not disappear: nothing is
\* truncated, rewritten or reordered, and the length never decreases.
C1_AppendOnly ==
    [][IsPrefix(content, content') /\ (exists => exists')]_vars

\* Two calls have each appended to a file that had content before them.
C1_Witness ==
    /\ Len(prior) > 0 /\ Len(hist) = 2
    /\ hist[1].opened /\ hist[2].opened
    /\ hist[1].arg.op = "write" /\ hist[2].arg.op = "hex"
    /\ Len(content) > Len(prior) + 22

\* ----------------------------------------------------------------------- C2
\* C2: under sequential use, when the N calls made so far have returned, the
\* file exists and holds its prior content followed by exactly N records, one
\* per call, in the order of the calls.
C2_NRecordsInCallOrder ==
    (alive /\ Idle) =>
        /\ (hist # <<>> => exists)
        /\ content = prior \o Records(hist)

\* ----------------------------------------------------------------------- C3
\* C3: the WriteFile of a hex dump whose open succeeded appends exactly one
\* record: timestamp tag, direction tag, one token "0xXX " per byte of the
\* buffer in index order, CR LF (for no bytes: the two tags and CR LF).
C3_HexRecordExact ==
    [][\A t \in Threads :
          (arg[t].op = "hex" /\ opened[t] /\ pc[t] = "write" /\ pc'[t] = "close") =>
              content' = content \o ExpectedHexRecord(now[t], arg[t].buf, arg[t].size, arg[t].sender)]_vars

\* ----------------------------------------------------------------------- C5
\* C5: the WriteFile of a DebugAngel_Write whose open succeeded leaves the
\* file with its content before followed by the rendered text and nothing
\* else.
C5_WriteAppendsRenderedText ==
    [][\A t \in Threads :
          (arg[t].op = "write" /\ opened[t] /\ pc[t] = "write" /\ pc'[t] = "close") =>
              content' = content \o ExpectedText(arg[t].fmt)]_vars

\* A formatted text with an argument has been appended behind prior content
\* and a first record.
C5_Witness ==
    /\ Len(prior) > 0 /\ Len(hist) = 1 /\ hist[1].opened /\ hist[1].arg.op = "hex"
    /\ \E t \in Threads :
        /\ arg[t].op = "write" /\ pc[t] = "close" /\ opened[t]
        /\ arg[t].fmt = <<"n", "=", "%d", ";">>
        /\ content = prior \o Records(hist) \o <<"n", "=", "-", "4", "2", ";">>

\* ----------------------------------------------------------------------- C6
\* A step of thread t in a call whose open fails or has failed.
FailedOpenStep(t) ==
    /\ pc'[t] # pc[t]
    /\ \/ pc[t] = "open" /\ ~opened'[t]
       \/ pc[t] \in {"seek", "build", "write", "close"} /\ ~opened[t]

\* C6: every step of a call whose open failed leaves the file as it was, and
\* the call goes on to return (it does not end the process).
C6_FailedOpenIsSilent ==
    [][\A t \in Threads :
          FailedOpenStep(t) =>
              /\ content' = content
              /\ exists' = exists
              /\ pc'[t] # "fault"]_vars

\* ----------------------------------------------------------------------- C7
\* C7: whenever no call is in progress the component has no handle open.
C7_NoHandleBetweenCalls ==
    Idle => DOMAIN kernel = {}

\* ----------------------------------------------------------------------- C8
Injections(n) == { f \in [1..n -> 1..n] : \A i, j \in 1..n : f[i] = f[j] => i = j }

\* C8 as stated: concurrent calls serialize, so that when they have all
\* returned (none of them having written past its buffer) the file holds its
\* prior content followed by one whole record per call, in some order.
C8_EveryCallOneRecord ==
    (alive /\ Idle /\ \A i \in 1..Len(hist) : hist[i].ub = "none") =>
        \E f \in Injections(Len(hist)) :
            content = prior \o Records([i \in 1..Len(hist) |-> hist[f[i]]])

\* What a call that ended has put in the file: its record, or nothing when
\* its open failed or its WriteFile got no handle of the file.
Written(e) ==
    IF e.opened /\ e.ub # "clobber" THEN ExpectedRecord(e.arg, e.now) ELSE <<>>

RECURSIVE WrittenBy(_)
WrittenBy(h) == IF h = <<>> THEN <<>> ELSE Written(Head(h)) \o WrittenBy(Tail(h))

\* The call that has written and not yet returned.
PastWrite(t) == pc[t] = "close" /\ opened[t] /\ ub[t] # "clobber"

InFlight ==
    IF \E t \in Threads : PastWrite(t)
    THEN LET t == CHOOSE u \in Threads : PastWrite(u) IN ExpectedRecord(arg[t], now[t])
    ELSE <<>>

\* C8, amended: concurrent calls do not wait for each other. At most one
\* handle is open on the file at any moment; a call whose open fails (another
\* call holds the handle) puts nothing in the file; and the file is its prior
\* content followed by the records that were written, each whole and
\* contiguous, in the order they were written.
C8_OneWriterWholeRecords ==
    /\ Cardinality(DOMAIN kernel) <= 1
    /\ Cardinality({t \in Threads : PastWrite(t)}) <= 1
    /\ content = prior \o WrittenBy(hist) \o InFlight

\* Of two concurrent calls one was turned away and the other wrote its record.
C8_Witness ==
    /\ Idle /\ Len(hist) = 2
    /\ \E i, j \in 1..2 : hist[i].opened /\ ~hist[j].opened /\ hist[j].ub = "none"
    /\ Len(content) > Len(prior)

====
